---- MODULE Spec2Model ----
(***************************************************************************)
(* A model of libhttp/ssl.c of shellinabox-2.3: the TLS enablement layer.  *)
(*                                                                         *)
(* The module holds several specifications over one set of variables, one  *)
(* per part of the file:                                                   *)
(*   SpecTeardown  sslPromoteToSSL, the backend's handshake buffering and  *)
(*                 sslFreeHndl on the sessions the program builds          *)
(*   SpecTopology  sslFreeHndl on every endpoint topology of a small heap  *)
(* Objects of the backend (BIO, SSL, SSL_CTX) are kept in heaps indexed by *)
(* small integers; 0 is the NULL pointer.  An object is never reused, so a *)
(* second free of it is visible as a free count of two.                    *)
(***************************************************************************)
EXTENDS Integers, Sequences, FiniteSets, TLC

NULL == 0

\* Bounds of the model.
MaxBio == 4        \* BIO objects the heap can hold
MaxLen == 2        \* longest prebuffered input given to sslPromoteToSSL
NumBytes == 2      \* distinct byte values of prebuffered input

BioIds == 1..MaxBio
SslIds == 1..MaxBio
Bytes  == 1..NumBytes

VARIABLES
  proc,      \* "running", or how the process ended
  lastOp,    \* the operation that produced this state
  \* session promotion and teardown
  bio,       \* the BIO heap: BioIds -> BIO object
  ssl,       \* the SSL session heap: SslIds -> SSL object
  sslHndl,   \* the caller's SSL * handle (HttpConnection's sslHndl)
  \* backend detection
  symtab,        \* the function pointers of ssl.c 76-114: name -> resolved
  pthreadLinked, \* whether &pthread_once is non-NULL in this process
  once,          \* the pthread_once_t of serverSupportsSSL
  initialized,   \* the static flag of serverSupportsSSL
  loadCount,     \* how many times loadSSL was entered
  libInit,       \* how many times SSL_library_init() was run
  tpc,           \* where each thread is in serverSupportsSSL
  ret,           \* what serverSupportsSSL last returned to each thread
  ncalls,        \* calls of serverSupportsSSL each thread has made
  \* virtual hosts (struct SSLSupport and the SNI callback)
  ctx,             \* the SSL_CTX heap: CtxIds -> context object
  sslContext,      \* ssl->sslContext, the default context
  generateMissing, \* ssl->generateMissing
  sniContexts,     \* ssl->sniContexts: normalised hostname -> context
  certFiles,       \* the certificate files on disk, by the name substituted
  sessCtx,         \* the context each session is bound to
  destroyed,       \* destroySSL has run
  concurrent,      \* whether callbacks of several threads may overlap
  cb,              \* each thread's call of sslSNICallback
  uaf,             \* a released context object was used
  \* hostname normalisation on its own
  normName,        \* the requested name
  normMem,         \* what malloc's block holds before it is written
  normBuf,         \* the serverName buffer after the loop (<<>> before)
  \* signals, logging and the calling thread's backend error queue
  sigMask,         \* the signals the thread blocks
  sigPending,      \* the blocked signals that are pending
  sigDelivered,    \* the signals that were delivered to the process
  signum,          \* what sslUnblockSigPipe last returned
  logDebug,        \* logIsDebug(): whether a failed dcheck is fatal
  errQueue,        \* the length of the backend's error queue
  rc,              \* what sslPromoteToSSL last returned
  errno,           \* errno as sslPromoteToSSL left it
  \* one armored block on its own
  pemPayload,      \* the binary payload that was armored
  pemLabel,        \* the record name of the block
  pemText,         \* the armored text given to sslPEMtoASN1
  pemOut,          \* what sslPEMtoASN1 returned (ret "none" before)
  \* reading a certificate bundle from a descriptor
  rdStream,        \* the bytes the descriptor delivers up to end-of-stream
  rdCaps,          \* the most each successive read() returns
  rdFill,          \* the byte malloc's blocks hold before they are written
  rdOut,           \* what sslSecureReadASCIIFileToMem returned
  fdOutcome,       \* how sslSetCertificateFd ended ("none" before)
  fdReleased,      \* the buffers released, with the bytes left in them
  fdPassed         \* the decoded blocks handed to the backend

bioVars == <<bio, ssl, sslHndl>>
loadVars == <<symtab, pthreadLinked, once, initialized, loadCount, libInit,
              tpc, ret, ncalls>>
sniVars == <<ctx, sslContext, generateMissing, sniContexts, certFiles,
             sessCtx, destroyed, concurrent, cb, uaf>>
normVars == <<normName, normMem, normBuf>>
sysVars == <<sigMask, sigPending, sigDelivered, signum, logDebug, errQueue,
             rc, errno>>
pemVars == <<pemPayload, pemLabel, pemText, pemOut>>
fdVars == <<rdStream, rdCaps, rdFill, rdOut, fdOutcome, fdReleased,
            fdPassed>>
vars == <<proc, lastOp, bioVars, loadVars, sniVars, normVars, sysVars,
          pemVars, fdVars>>

(***************************************************************************)
(* Backend objects.                                                        *)
(***************************************************************************)
NoBio == [kind |-> "none", next_bio |-> NULL, prev_bio |-> NULL,
          references |-> 0, frees |-> 0, data |-> <<>>, owner |-> NULL]

NoSsl == [alloc |-> FALSE, rbio |-> NULL, wbio |-> NULL, bbio |-> NULL,
          frees |-> 0]

\* No session exists.
BioIdle ==
  /\ bio = [b \in BioIds |-> NoBio]
  /\ ssl = [s \in SslIds |-> NoSsl]
  /\ sslHndl = NULL

\* The first object of a heap that was never allocated (NULL when exhausted).
FreshBio(h) ==
  IF \E b \in BioIds : h[b].kind = "none"
    THEN CHOOSE b \in BioIds : h[b].kind = "none" /\
                               \A c \in BioIds : h[c].kind = "none" => b <= c
    ELSE NULL

FreshSsl(S) ==
  IF \E s \in SslIds : ~S[s].alloc
    THEN CHOOSE s \in SslIds : ~S[s].alloc /\
                               \A t \in SslIds : ~S[t].alloc => s <= t
    ELSE NULL

\* BIO_new / BIO_new_socket: a fresh object with one reference and no links.
BIO_new(h, b, kind, owner) ==
  [h EXCEPT ![b] = [kind |-> kind, next_bio |-> NULL, prev_bio |-> NULL,
                    references |-> 1, frees |-> 0, data |-> <<>>,
                    owner |-> owner]]

\* The last BIO of the chain that starts at b.
RECURSIVE LastBio(_, _, _)
LastBio(h, b, fuel) ==
  IF fuel = 0 \/ h[b].next_bio = NULL THEN b
  ELSE LastBio(h, h[b].next_bio, fuel - 1)

\* BIO_push(b, x): append x to the chain of b.  References are not touched.
BIO_push(h, b, x) ==
  LET lb == LastBio(h, b, MaxBio)
      h1 == [h EXCEPT ![lb].next_bio = x]
  IN IF x # NULL THEN [h1 EXCEPT ![x].prev_bio = lb] ELSE h1

\* BIO_pop(b): unlink b from its chain; the call returns b's old next_bio.
BIO_pop(h, b) ==
  IF b = NULL THEN h
  ELSE LET n  == h[b].next_bio
           p  == h[b].prev_bio
           h1 == IF p # NULL THEN [h EXCEPT ![p].next_bio = n] ELSE h
           h2 == IF n # NULL THEN [h1 EXCEPT ![n].prev_bio = p] ELSE h1
       IN [h2 EXCEPT ![b].next_bio = NULL, ![b].prev_bio = NULL]

\* BIO_free(b): drop one reference and release the object with the last one.
\* A free of an object already released is counted as one more free of it.
BIO_free(h, b) ==
  IF b = NULL THEN h
  ELSE IF h[b].frees > 0 THEN [h EXCEPT ![b].frees = @ + 1]
  ELSE IF h[b].references > 1 THEN [h EXCEPT ![b].references = @ - 1]
  ELSE [h EXCEPT ![b].references = 0, ![b].frees = 1]

\* BIO_free_all(b): free the chain from b on, stopping after an object that
\* had more than one reference.
RECURSIVE BIO_free_all(_, _, _)
BIO_free_all(h, b, fuel) ==
  IF b = NULL \/ fuel = 0 THEN h
  ELSE LET ref == h[b].references
           nxt == h[b].next_bio
           h1  == BIO_free(h, b)
       IN IF ref > 1 THEN h1 ELSE BIO_free_all(h1, nxt, fuel - 1)

\* What SSL_free does to the BIO heap: the handshake buffer is popped and
\* freed, then the read chain, then the write chain when it is another one.
SSL_free_bios(h, s) ==
  LET w1 == IF s.bbio # NULL /\ s.bbio = s.wbio THEN h[s.wbio].next_bio
            ELSE s.wbio
      h1 == IF s.bbio # NULL /\ s.bbio = s.wbio THEN BIO_pop(h, s.wbio) ELSE h
      h2 == IF s.bbio # NULL THEN BIO_free(h1, s.bbio) ELSE h1
      h3 == IF s.rbio # NULL THEN BIO_free_all(h2, s.rbio, MaxBio + 1) ELSE h2
  IN IF w1 # NULL /\ w1 # s.rbio THEN BIO_free_all(h3, w1, MaxBio + 1) ELSE h3

\* SSL_free on the session heap: one more release of the session object.
SSL_free(S, hn) == [S EXCEPT ![hn].frees = @ + 1]

(***************************************************************************)
(* Signal discipline: sslBlockSigPipe and sslUnblockSigPipe (ssl.c         *)
(* 585-605).                                                               *)
(***************************************************************************)
SIGINT == 2
SIGPIPE == 13
SIGTERM == 15

Signals == {SIGINT, SIGPIPE, SIGTERM}

\* sslBlockSigPipe: SIG_BLOCK of the set {SIGPIPE}.
SigBlock(mask) == mask \cup {SIGPIPE}

\* What sigwait(&set, &signum) may return at ssl.c 598, where set is what
\* sigpending() gave: any one of the pending signals (0: sigwait not called).
SigwaitChoices(pending) == IF SIGPIPE \in pending THEN pending ELSE {0}

\* sslUnblockSigPipe with sigwait returning pick: the signal sigwait returns
\* is consumed, SIGPIPE is unblocked, and a SIGPIPE that is still pending is
\* then delivered.
SigUnblock(mask, pending, delivered, pick) ==
  LET p1 == IF SIGPIPE \in pending THEN pending \ {pick} ELSE pending
  IN [mask      |-> mask \ {SIGPIPE},
      pending   |-> p1 \ {SIGPIPE},
      delivered |-> IF SIGPIPE \in p1 THEN delivered \cup {SIGPIPE}
                    ELSE delivered,
      signum    |-> IF SIGPIPE \in pending THEN pick ELSE 0]

\* No signal blocked, pending or delivered; the error queue empty.
SysStart ==
  /\ sigMask = {}
  /\ sigPending = {}
  /\ sigDelivered = {}
  /\ signum = 0
  /\ errQueue = 0
  /\ rc = 0
  /\ errno = "none"

\* The same with logging not at debug level.
SysIdle == SysStart /\ logDebug = FALSE

\* ERR_clear_error left out.
ERR_clear_error_Skipped(q) == q

\* ERR_clear_error(): the calling thread's error queue is emptied.
ERR_clear_error(q) == 0

(***************************************************************************)
(* sslPromoteToSSL (ssl.c 607-638).                                        *)
(***************************************************************************)
\* The session object SSL_new returns.
SSL_new(S, s) == [S EXCEPT ![s] = [alloc |-> TRUE, rbio |-> NULL,
                                   wbio |-> NULL, bbio |-> NULL, frees |-> 0]]

\* SSL_set_bio(s, rbio, wbio)
SSL_set_bio(S, s, r, w) == [S EXCEPT ![s].rbio = r, ![s].wbio = w]

\* A buffer BIO whose input is seeded without the last byte.
BIO_set_buffer_read_data_Short(h, b, buf) ==
  [h EXCEPT ![b].data = SubSeq(buf, 1, Len(buf) - 1)]

\* BIO_set_buffer_read_data(b, buf, len): seed the buffer BIO's input.
BIO_set_buffer_read_data(h, b, buf) == [h EXCEPT ![b].data = buf]

\* The heap after the else branch of sslPromoteToSSL: the socket BIO is the
\* write end; with len > 0 a buffer BIO seeded with buf and pushed onto the
\* socket BIO is the read end, otherwise the socket BIO is the read end too.
PromoteBios(h, s, buf) ==
  LET writeBIO == FreshBio(h)
      h1       == BIO_new(h, writeBIO, "socket", s)
      readBIO  == FreshBio(h1)
      h2       == BIO_new(h1, readBIO, "buffer", s)
      h3       == BIO_push(h2, readBIO, writeBIO)
  IN IF Len(buf) > 0
       THEN [bio |-> BIO_set_buffer_read_data(h3, readBIO, buf),
             rbio |-> readBIO, wbio |-> writeBIO]
       ELSE [bio |-> h1, rbio |-> writeBIO, wbio |-> writeBIO]

\* sslPromoteToSSL(ssl, &sslHndl, fd, buf, len).  newOk is whether SSL_new
\* returns a session, arrives whether a SIGPIPE is generated while the call
\* has it blocked, pick what sigwait returns.  The model's heaps must have
\* room for the objects.
sslPromoteToSSL(buf, newOk, arrives, pick) ==
  LET mask1 == SigBlock(sigMask)
      pend1 == IF arrives THEN sigPending \cup {SIGPIPE} ELSE sigPending
      u     == SigUnblock(mask1, pend1, sigDelivered, pick)
      Return(r) == /\ sigMask' = u.mask
                   /\ sigPending' = u.pending
                   /\ sigDelivered' = u.delivered
                   /\ signum' = u.signum
                   /\ rc' = r
                   /\ UNCHANGED <<proc, logDebug>>
      Abort(how) == /\ proc' = how
                    /\ sigMask' = mask1
                    /\ UNCHANGED <<sigPending, sigDelivered, signum, logDebug,
                                   rc, errno>>
  IN /\ proc = "running"
     /\ FreshSsl(ssl) # NULL
     /\ Cardinality({b \in BioIds : bio[b].kind = "none"}) >= 3
     /\ pick \in SigwaitChoices(pend1)
     /\ lastOp' = "sslPromoteToSSL"
     /\ UNCHANGED <<loadVars, sniVars, normVars, pemVars, fdVars>>
     /\ IF sslHndl # NULL
          THEN \* check(!*sslHndl)
               Abort("check") /\ UNCHANGED <<bioVars, errQueue>>
        ELSE IF errQueue # 0 /\ logDebug
          THEN \* dcheck(!ERR_peek_error())
               Abort("fatal") /\ UNCHANGED <<bioVars, errQueue>>
        ELSE IF ~newOk /\ logDebug
          THEN \* dcheck(*sslHndl = SSL_new(ssl->sslContext))
               /\ Abort("fatal")
               /\ errQueue' = errQueue + 1
               /\ UNCHANGED bioVars
        ELSE IF ~newOk
          THEN \* SSL_new returned NULL: rc = -1, errno = EINVAL
               /\ Return(-1)
               /\ errQueue' = ERR_clear_error(errQueue + 1)
               /\ errno' = "EINVAL"
               /\ UNCHANGED bioVars
        ELSE LET s == FreshSsl(ssl)
                 p == PromoteBios(bio, s, buf)
             IN /\ bio' = p.bio
                /\ ssl' = SSL_set_bio(SSL_new(ssl, s), s, p.rbio, p.wbio)
                /\ sslHndl' = s
                /\ Return(0)
                /\ UNCHANGED <<errQueue, errno>>

(***************************************************************************)
(* The backend while the session is in use (SSL_read / SSL_write, ssl.c    *)
(* 107, 113): the handshake pushes a buffer BIO onto the write end and     *)
(* pops it again when it completes (see the comment at ssl.c 665-672).     *)
(***************************************************************************)
\* The handshake starts: bbio is created and pushed onto wbio.
HandshakeBegin ==
  /\ proc = "running"
  /\ sslHndl # NULL
  /\ ssl[sslHndl].bbio = NULL
  /\ LET s    == sslHndl
         bbio == FreshBio(bio)
         h1   == BIO_new(bio, bbio, "buffer", s)
     IN /\ bbio # NULL
        /\ bio' = BIO_push(h1, bbio, ssl[s].wbio)
        /\ ssl' = [ssl EXCEPT ![s].bbio = bbio, ![s].wbio = bbio]
  /\ lastOp' = "HandshakeBegin"
  /\ UNCHANGED <<sslHndl, proc, loadVars, sniVars, normVars, sysVars, pemVars, fdVars>>

\* The handshake completes: bbio is popped off wbio and freed.
HandshakeEnd ==
  /\ proc = "running"
  /\ sslHndl # NULL
  /\ ssl[sslHndl].bbio # NULL
  /\ LET s    == sslHndl
         bbio == ssl[s].bbio
         w    == IF bbio = ssl[s].wbio THEN bio[bbio].next_bio ELSE ssl[s].wbio
         h1   == IF bbio = ssl[s].wbio THEN BIO_pop(bio, bbio) ELSE bio
     IN /\ bio' = BIO_free(h1, bbio)
        /\ ssl' = [ssl EXCEPT ![s].bbio = NULL, ![s].wbio = w]
  /\ lastOp' = "HandshakeEnd"
  /\ UNCHANGED <<sslHndl, proc, loadVars, sniVars, normVars, sysVars, pemVars, fdVars>>

(***************************************************************************)
(* sslFreeHndl (ssl.c 640-695).                                            *)
(***************************************************************************)
\* What reading a field through a NULL pointer can do.
UbOutcomes == {"segv", "equal", "differ"}

FreeResult(h, S, hn, p) == [bio |-> h, ssl |-> S, hndl |-> hn, proc |-> p]

\* A handle left as it was.
FreeHndlHandle_Kept(hn) == hn

\* The handle after sslFreeHndl returns (ssl.c 694).
FreeHndlHandle(hn) == NULL

\* SSL_free(*sslHndl); dcheck(!ERR_peek_error()); *sslHndl = NULL.
FreeSession(h, S, hn) ==
  FreeResult(SSL_free_bios(h, S[hn]), SSL_free(S, hn), FreeHndlHandle(hn),
             "running")

\* sslFreeHndl without the repair: the session is freed as it stands.
FreePatternA_NoRepair(h, S, hn, r, w) == FreeSession(h, S, hn)

\* The repair of Pattern A (ssl.c 655-662): the read end is popped off the
\* write end; the process goes on only if that left two unlinked BIOs with
\* one reference each.
FreePatternA(h, S, hn, r, w) ==
  LET h1 == BIO_pop(h, r)
  IN IF /\ h[r].next_bio = w
        /\ h1[r].references = 1
        /\ h1[w].references = 1
        /\ h1[r].next_bio = NULL
        /\ h1[w].prev_bio = NULL
       THEN FreeSession(h1, S, hn)
       ELSE FreeResult(h1, S, hn, "check")

\* The repair of Pattern B (ssl.c 663-682): the socket BIO is popped off both
\* ends and freed on its own.
FreePatternB(h, S, hn, r, w) ==
  LET sockBIO == h[r].next_bio
      h1      == BIO_pop(h, r)
      sock2   == h1[w].next_bio
      h2      == BIO_pop(h1, w)
  IN IF sockBIO = NULL THEN FreeResult(h1, S, hn, "check")
     ELSE IF sockBIO # sock2 THEN FreeResult(h2, S, hn, "check")
     ELSE IF /\ h2[r].references = 1
             /\ h2[w].references = 1
             /\ h2[sockBIO].references = 1
             /\ h2[r].next_bio = NULL
             /\ h2[w].next_bio = NULL
             /\ h2[sockBIO].prev_bio = NULL
       THEN FreeSession(BIO_free_all(h2, sockBIO, MaxBio + 1), S, hn)
       ELSE FreeResult(h2, S, hn, "check")

\* A test that never recognises Pattern B.
TestPatternB_Never(h, r, w, ub) == "no"

\* The test of ssl.c 663-664.  With both ends lacking a successor the second
\* operand reads prev_bio through a NULL next_bio: ub is what that read does.
TestPatternB(h, r, w, ub) ==
  IF h[r].next_bio # h[w].next_bio THEN "no"
  ELSE IF h[w].next_bio = NULL
    THEN CASE ub = "segv"   -> "segv"
           [] ub = "equal"  -> "yes"
           [] ub = "differ" -> "no"
    ELSE IF h[h[w].next_bio].prev_bio = w THEN "yes" ELSE "no"

\* The whole of sslFreeHndl as a function of the heaps and the handle.
FreeHndl(h, S, hn, ub) ==
  IF hn = NULL THEN FreeResult(h, S, NULL, "running")
  ELSE LET writeBIO == S[hn].wbio
           readBIO  == S[hn].rbio
       IN IF writeBIO = NULL \/ readBIO = NULL
            THEN FreeResult(h, S, hn, "check")
          ELSE IF writeBIO = readBIO THEN FreeSession(h, S, hn)
          ELSE IF h[readBIO].next_bio = writeBIO
            THEN FreePatternA(h, S, hn, readBIO, writeBIO)
          ELSE CASE TestPatternB(h, readBIO, writeBIO, ub) = "yes"
                      -> FreePatternB(h, S, hn, readBIO, writeBIO)
                 [] TestPatternB(h, readBIO, writeBIO, ub) = "segv"
                      -> FreeResult(h, S, hn, "segv")
                 [] OTHER -> FreeResult(h, S, hn, "fatal")

\* The labels of a call of sslFreeHndl: the second names a call that directly
\* follows another call of it.
FreeOps == {"sslFreeHndl", "sslFreeHndlAgain"}

sslFreeHndl ==
  /\ proc = "running"
  /\ \E ub \in UbOutcomes :
       LET res == FreeHndl(bio, ssl, sslHndl, ub)
       IN /\ bio' = res.bio
          /\ ssl' = res.ssl
          /\ sslHndl' = res.hndl
          /\ proc' = res.proc
  /\ lastOp' = IF lastOp \in FreeOps THEN "sslFreeHndlAgain" ELSE "sslFreeHndl"
  /\ UNCHANGED <<loadVars, sniVars, normVars, sysVars, pemVars, fdVars>>

(***************************************************************************)
(* Backend detection: loadSymbol, loadSSL, serverSupportsSSL (ssl.c        *)
(* 166-271).                                                               *)
(***************************************************************************)
NumThreads == 2    \* threads that call serverSupportsSSL
MaxCalls == 2      \* calls each thread makes

Threads == 1..NumThreads

\* The table of loadSSL (ssl.c 189-231), in its order, HAVE_TLSEXT defined.
symbols ==
  << "BIO_ctrl", "BIO_f_buffer", "BIO_free_all", "BIO_new", "BIO_new_socket",
     "BIO_pop", "BIO_push", "ERR_clear_error", "ERR_clear_error",
     "ERR_peek_error", "ERR_peek_error", "SSL_CTX_callback_ctrl",
     "SSL_CTX_check_private_key", "SSL_CTX_ctrl", "SSL_CTX_free",
     "SSL_CTX_new", "SSL_CTX_use_PrivateKey_file",
     "SSL_CTX_use_PrivateKey_ASN1", "SSL_CTX_use_certificate_file",
     "SSL_CTX_use_certificate_ASN1", "SSL_ctrl", "SSL_free", "SSL_get_error",
     "SSL_get_ex_data", "SSL_get_rbio", "SSL_get_servername", "SSL_get_wbio",
     "SSL_library_init", "SSL_new", "SSL_read", "SSL_set_SSL_CTX",
     "SSL_set_accept_state", "SSL_set_bio", "SSL_set_ex_data", "SSL_shutdown",
     "SSL_write", "SSLv23_server_method" >>

Names == {symbols[i] : i \in DOMAIN symbols}

\* What the dynamic linker can resolve: every symbol, every symbol but one,
\* every symbol but one and the last of the table, or none.
HaveSets ==
  {Names, {}} \cup {Names \ {n} : n \in Names}
              \cup {Names \ {n, "SSLv23_server_method"} : n \in Names}

\* loadSymbol(lib, fn): dlsym in the image and, failing that, in the library
\* when dlopen gives it.  TRUE stands for a non-NULL result.
loadSymbol(fn, image, libOpens, lib) ==
  fn \in image \/ (libOpens /\ fn \in lib)

\* The inner loop of ssl.c 236-238 left out: the table stays as it is.
ClearSymbols_Skipped(tab) == tab

\* The inner loop of ssl.c 236-238: every pointer of the table is set to NULL.
ClearSymbols(tab) == [n \in DOMAIN tab |-> FALSE]

\* The loop of ssl.c 232-241 from entry i on.
RECURSIVE LoadLoop(_, _, _, _, _)
LoadLoop(tab, i, image, libOpens, lib) ==
  IF i > Len(symbols) THEN [tab |-> tab, ok |-> TRUE]
  ELSE IF loadSymbol(symbols[i], image, libOpens, lib)
    THEN LoadLoop([tab EXCEPT ![symbols[i]] = TRUE], i + 1, image, libOpens,
                  lib)
    ELSE [tab |-> ClearSymbols(tab), ok |-> FALSE]

\* The flag is left clear.
SetInitialized_Forgotten == FALSE

\* initialized = 1 (ssl.c 263)
SetInitialized == TRUE

\* Threads exist only in a process that has the pthread library, where
\* &pthread_once is non-NULL (ssl.c 65-73, 250-255).
Callers == IF pthreadLinked THEN Threads ELSE {1}

\* serverSupportsSSL up to the run-once gate (ssl.c 254-265): the thread
\* either goes on to run loadSSL, waits for the thread that runs it, or
\* finds the gate already passed.
CallServerSupportsSSL(t) ==
  /\ proc = "running"
  /\ t \in Callers
  /\ tpc[t] = "idle"
  /\ ncalls[t] < MaxCalls
  /\ ncalls' = [ncalls EXCEPT ![t] = @ + 1]
  /\ IF pthreadLinked
       THEN /\ once' = IF once = "init" THEN "running" ELSE once
            /\ tpc' = [tpc EXCEPT ![t] = CASE once = "init"    -> "loadSSL"
                                           [] once = "running" -> "wait"
                                           [] OTHER            -> "return"]
            /\ UNCHANGED initialized
       ELSE /\ initialized' = IF ~initialized THEN SetInitialized
                              ELSE initialized
            /\ tpc' = [tpc EXCEPT ![t] = IF ~initialized THEN "loadSSL"
                                         ELSE "return"]
            /\ UNCHANGED once
  /\ lastOp' = "serverSupportsSSL"
  /\ UNCHANGED <<symtab, pthreadLinked, loadCount, libInit, ret, proc,
                 bioVars, sniVars, normVars, sysVars, pemVars, fdVars>>

\* loadSSL (ssl.c 181-245), run by the thread that passed the gate.
loadSSL(t, image, libOpens, lib) ==
  /\ proc = "running"
  /\ tpc[t] = "loadSSL"
  /\ loadCount' = loadCount + 1
  /\ lastOp' = "loadSSL"
  /\ IF symtab["SSL_library_init"]
       THEN \* check(!SSL_library_init)
            /\ proc' = "check"
            /\ UNCHANGED <<symtab, libInit, once, tpc>>
       ELSE LET r == LoadLoop(symtab, 1, image, libOpens, lib)
            IN /\ symtab' = r.tab
               /\ libInit' = IF r.ok THEN libInit + 1 ELSE libInit
               /\ once' = IF pthreadLinked THEN "done" ELSE once
               /\ tpc' = [tpc EXCEPT ![t] = "return"]
               /\ UNCHANGED proc
  /\ UNCHANGED <<pthreadLinked, initialized, ret, ncalls, bioVars, sniVars,
                 normVars, sysVars, pemVars, fdVars>>

\* pthread_once returns in a thread that waited for loadSSL to finish.
OnceWake(t) ==
  /\ proc = "running"
  /\ tpc[t] = "wait"
  /\ once = "done"
  /\ tpc' = [tpc EXCEPT ![t] = "return"]
  /\ lastOp' = "pthread_once"
  /\ UNCHANGED <<symtab, pthreadLinked, once, initialized, loadCount, libInit,
                 ret, ncalls, proc, bioVars, sniVars, normVars, sysVars, pemVars, fdVars>>

\* return !!SSL_library_init (ssl.c 267)
ReturnServerSupportsSSL(t) ==
  /\ proc = "running"
  /\ tpc[t] = "return"
  /\ ret' = [ret EXCEPT ![t] = IF symtab["SSL_library_init"] THEN "true"
                                ELSE "false"]
  /\ tpc' = [tpc EXCEPT ![t] = "idle"]
  /\ lastOp' = "return"
  /\ UNCHANGED <<symtab, pthreadLinked, once, initialized, loadCount, libInit,
                 ncalls, proc, bioVars, sniVars, normVars, sysVars, pemVars, fdVars>>

\* loadSSL has returned and no thread is inside it.
Loaded == loadCount >= 1 /\ \A t \in Threads : tpc[t] # "loadSSL"

AllResolved == \A n \in Names : symtab[n]
NoneResolved == \A n \in Names : ~symtab[n]

\* C7: however the calls of serverSupportsSSL interleave, loadSSL is entered
\* at most once, its entry check never fails, and it has run once before any
\* call returns, with pthread_once and with the plain flag alike.
C7_LoadOnce ==
  /\ loadCount <= 1
  /\ proc = "running"
  /\ \A t \in Threads : (ret[t] # "none" \/ tpc[t] = "return") => loadCount = 1

\* Both threads have had serverSupportsSSL return, one of them twice.
C7_Witness ==
  /\ \A t \in Threads : ret[t] # "none"
  /\ \E t \in Threads : ncalls[t] = 2 /\ tpc[t] = "idle"
  /\ loadCount = 1

\* C8: once loadSSL has returned, either every symbol is resolved and the
\* library initialiser ran once, or no symbol is resolved and it did not run;
\* serverSupportsSSL returns true exactly in the first case.
C8_AllOrNothing ==
  Loaded =>
    /\ \/ AllResolved /\ libInit = 1
       \/ NoneResolved /\ libInit = 0
    /\ \A t \in Threads : ret[t] # "none" => (ret[t] = "true" <=> AllResolved)

\* loadSSL gave up on a missing symbol and serverSupportsSSL returned false.
C8_Witness ==
  /\ Loaded
  /\ NoneResolved
  /\ libInit = 0
  /\ \E t \in Threads : ret[t] = "false"

(***************************************************************************)
(* Hostname normalisation (ssl.c 305-322).  Bytes are their ASCII codes.   *)
(***************************************************************************)
MaxNameLen == 3    \* longest requested name that is normalised on its own

\* 'A' 'a' 'b' '_' '.' '1' '-'
NameBytes == {65, 97, 98, 95, 46, 49, 45}

\* What a byte of a fresh malloc block can hold: NUL or some other byte ('x').
GarbageBytes == {0, 120}

RECURSIVE BitOr(_, _)
BitOr(a, b) ==
  IF a = 0 THEN b
  ELSE IF b = 0 THEN a
  ELSE (IF a % 2 = 1 \/ b % 2 = 1 THEN 1 ELSE 0) + 2 * BitOr(a \div 2, b \div 2)

\* name[i] of the NUL-terminated requested name.
CharAt(name, i) == IF i < Len(name) THEN name[i + 1] ELSE 0

\* The condition of ssl.c 312-314.
Disallowed(ch) ==
  /\ ch # 0 /\ ch # 46 /\ ch # 45
  /\ (ch < 48 \/ (ch > 57 /\ ch < 65) \/ (ch > 90 /\ ch < 97) \/ ch > 122)

\* The loop of ssl.c 308-322 from index i on.  buf[j] is serverName[j-1]; a
\* kept byte of name[i] is stored at serverName[i+1], a dropped byte only
\* advances i.
RECURSIVE NormLoop(_, _, _)
NormLoop(name, buf, i) ==
  LET ch0 == CharAt(name, i)
      up  == ch0 >= 65 /\ ch0 <= 90
      ch  == IF up THEN BitOr(ch0, 32) ELSE ch0
      b2  == [buf EXCEPT ![i + 2] = ch]
  IN IF ~up /\ Disallowed(ch0) THEN NormLoop(name, buf, i + 1)
     ELSE IF ch = 0 THEN b2
     ELSE NormLoop(name, b2, i + 1)

\* serverName after the loop: malloc(strlen(name)+2) holding mem, then
\* serverName[0] = '-', then the loop.
ServerName(name, mem) == NormLoop(name, [mem EXCEPT ![1] = 45], 0)

\* The C string that starts at buf[from].
CString(buf, from) ==
  LET nuls == {i \in from..Len(buf) : buf[i] = 0}
  IN IF nuls = {} THEN SubSeq(buf, from, Len(buf))
     ELSE SubSeq(buf, from, (CHOOSE i \in nuls : \A j \in nuls : i <= j) - 1)

\* serverName+1: the key given to getFromTrie and addToTrie.
KeyOf(buf) == CString(buf, 2)

\* The pattern filled with serverName+1.
PatternArg_KeyOnly(buf) == CString(buf, 2)

\* serverName: the string substituted into the certificate pattern (ssl.c
\* 333-334).
PatternArg(buf) == CString(buf, 1)

\* The test of ssl.c 323: !*serverName
IsEmptyName(buf) == buf[1] = 0

MemBlocks(name) == [1..(Len(name) + 2) -> GarbageBytes]

NormNames == UNION {[1..n -> NameBytes] : n \in 1..MaxNameLen}

(***************************************************************************)
(* Certificate material: sslPEMtoASN1 (ssl.c 463-527).  Strings are        *)
(* sequences of byte values; a C string ends before its first NUL.         *)
(***************************************************************************)
\* "-----BEGIN "
BeginPrefix ==
  <<45, 45, 45, 45, 45, 66, 69, 71, 73, 78, 32>>

\* "-----END "
EndPrefix ==
  <<45, 45, 45, 45, 45, 69, 78, 68, 32>>

\* "-----"
MarkerSuffix ==
  <<45, 45, 45, 45, 45>>

\* "CERTIFICATE"
CERTIFICATE ==
  <<67, 69, 82, 84, 73, 70, 73, 67, 65, 84, 69>>

\* "RSA PRIVATE KEY"
RSA_PRIVATE_KEY ==
  <<82, 83, 65, 32, 80, 82, 73, 86, 65, 84, 69, 32, 75, 69, 89>>

\* "DSA PRIVATE KEY"
DSA_PRIVATE_KEY ==
  <<68, 83, 65, 32, 80, 82, 73, 86, 65, 84, 69, 32, 75, 69, 89>>

\* "EC PRIVATE KEY"
EC_PRIVATE_KEY ==
  <<69, 67, 32, 80, 82, 73, 86, 65, 84, 69, 32, 75, 69, 89>>

\* The records sslSetCertificateFd asks for (ssl.c 539-542).
Records == {CERTIFICATE, RSA_PRIVATE_KEY, DSA_PRIVATE_KEY, EC_PRIVATE_KEY}

\* stringPrintf(NULL, "-----BEGIN %s-----", record) and the END marker.
BeginMarker(record) == BeginPrefix \o record \o MarkerSuffix
EndMarker(record) == EndPrefix \o record \o MarkerSuffix

\* strstr(hay + from - 1, needle): the index in hay (from 1) of the first
\* occurrence of needle at or after from, 0 if there is none.
strstr(hay, needle, from) ==
  LET found == {i \in from..(Len(hay) - Len(needle) + 1) :
                  SubSeq(hay, i, i + Len(needle) - 1) = needle}
  IN IF found = {} THEN 0
     ELSE CHOOSE i \in found : \A j \in found : i <= j

Pow2(n) == 2 ^ n

\* The value of a base64 digit with '/' read as '+'.
Sextet_SlashAsPlus(ch) ==
  IF ch >= 65 /\ ch <= 90 THEN ch - 65
  ELSE IF ch >= 97 /\ ch <= 122 THEN ch - 97 + 26
  ELSE IF ch >= 48 /\ ch <= 57 THEN ch + 52 - 48
  ELSE 62

\* The value of a base64 digit (ssl.c 491-500).
Sextet(ch) ==
  IF ch >= 65 /\ ch <= 90 THEN ch - 65
  ELSE IF ch >= 97 /\ ch <= 122 THEN ch - 97 + 26
  ELSE IF ch >= 48 /\ ch <= 57 THEN ch + 52 - 48
  ELSE IF ch = 43 THEN 62
  ELSE 63

IsDigit64(ch) ==
  \/ ch >= 65 /\ ch <= 90
  \/ ch >= 97 /\ ch <= 122
  \/ ch >= 48 /\ ch <= 57
  \/ ch = 43
  \/ ch = 47

\* The inner loop of ssl.c 502-506: after '=' only '=' and bytes <= ' ' may
\* follow up to the END marker.
RECURSIVE PaddingOk(_, _, _)
PaddingOk(pem, ptr, end) ==
  IF ptr >= end THEN TRUE
  ELSE IF pem[ptr] # 61 /\ pem[ptr] > 32 THEN FALSE
  ELSE PaddingOk(pem, ptr + 1, end)

NoBlock == [ret |-> "NULL", bytes |-> <<>>, size |-> -1]

\* The loop of ssl.c 489-523 from ptr on: out is what has been written to
\* ret, bits and count the accumulator.  bits is an unsigned of 32 bits of
\* which the code reads bits 0 to 11 only (count is at most 12 at line 521);
\* the low 24 bits are kept here.
RECURSIVE DecodeLoop(_, _, _, _, _, _)
DecodeLoop(pem, ptr, end, out, bits, count) ==
  IF ptr >= end THEN [ret |-> "buffer", bytes |-> out, size |-> Len(out)]
  ELSE LET ch == pem[ptr]
       IN IF IsDigit64(ch)
            THEN LET b2 == (bits * 64 + Sextet(ch)) % Pow2(24)
                     c2 == count + 6
                 IN IF c2 >= 8
                      THEN DecodeLoop(pem, ptr + 1, end,
                                      Append(out, (b2 \div Pow2(c2 - 8)) % 256),
                                      b2, c2 - 8)
                      ELSE DecodeLoop(pem, ptr + 1, end, out, b2, c2)
          ELSE IF ch = 61
            THEN IF PaddingOk(pem, ptr + 1, end)
                   THEN [ret |-> "buffer", bytes |-> out, size |-> Len(out)]
                   ELSE NoBlock
          ELSE IF ch <= 32 THEN DecodeLoop(pem, ptr + 1, end, out, bits, count)
          ELSE NoBlock

\* sslPEMtoASN1(pem, record, &size): ret is "NULL" or "buffer", bytes what
\* the buffer holds, size what *size is set to.
sslPEMtoASN1(pem, record) ==
  LET begin == strstr(pem, BeginMarker(record), 1)
      ptr   == begin + Len(BeginMarker(record))
      end   == strstr(pem, EndMarker(record), ptr)
  IN IF begin = 0 THEN NoBlock
     ELSE IF end = 0 THEN NoBlock
     ELSE DecodeLoop(pem, ptr, end, <<>>, 0, 0)

(***************************************************************************)
(* Armored blocks as a PEM writer produces them, and SpecCodec:            *)
(* sslPEMtoASN1 on one such block.                                         *)
(***************************************************************************)
MaxPayload == 3    \* bytes in a payload
MaxWs == 4         \* positions of the base64 text that may carry whitespace

PayloadBytes == {0, 251, 255}
Payloads == UNION {[1..n -> PayloadBytes] : n \in 0..MaxPayload}

\* Nothing, a line feed or a space in front of a character.
WsChoices == {0, 10, 32}
WsPatterns == [1..MaxWs -> WsChoices]

\* The base64 digit of a 6-bit value.
Digit64(v) ==
  IF v < 26 THEN 65 + v
  ELSE IF v < 52 THEN 97 + v - 26
  ELSE IF v < 62 THEN 48 + v - 52
  ELSE IF v = 62 THEN 43
  ELSE 47

\* The standard padded base64 encoding of payload P.
RECURSIVE Base64(_)
Base64(P) ==
  IF Len(P) = 0 THEN <<>>
  ELSE IF Len(P) = 1
    THEN <<Digit64(P[1] \div 4), Digit64((P[1] % 4) * 16), 61, 61>>
  ELSE IF Len(P) = 2
    THEN <<Digit64(P[1] \div 4),
           Digit64((P[1] % 4) * 16 + P[2] \div 16),
           Digit64((P[2] % 16) * 4), 61>>
  ELSE <<Digit64(P[1] \div 4),
         Digit64((P[1] % 4) * 16 + P[2] \div 16),
         Digit64((P[2] % 16) * 4 + P[3] \div 64),
         Digit64(P[3] % 64)>> \o Base64(SubSeq(P, 4, Len(P)))

\* text with ws[i] put in front of its i-th character, from i on.
RECURSIVE Spaced(_, _, _)
Spaced(text, ws, i) ==
  IF i > Len(text) THEN <<>>
  ELSE (IF i \in DOMAIN ws /\ ws[i] # 0 THEN <<ws[i]>> ELSE <<>>)
         \o <<text[i]>> \o Spaced(text, ws, i + 1)

\* The block of record holding payload P, a line feed after each marker.
Armored(record, P, ws) ==
  BeginMarker(record) \o <<10>> \o Spaced(Base64(P), ws, 1) \o <<10>>
    \o EndMarker(record) \o <<10>>

NoResult == [ret |-> "none", bytes |-> <<>>, size |-> 0]

PemIdle ==
  /\ pemPayload = <<>>
  /\ pemLabel = <<>>
  /\ pemText = <<>>
  /\ pemOut = NoResult

(***************************************************************************)
(* sslSecureReadASCIIFileToMem (ssl.c 430-461).                            *)
(***************************************************************************)
inc == 4           \* the growth step of the buffer (16384 in ssl.c 431)

Min(a, b) == IF a < b THEN a ELSE b

\* memset(buf, 0, n)
Memset0(buf, n) ==
  SubSeq([i \in 1..Len(buf) |-> 0], 1, Min(n, Len(buf)))
    \o SubSeq(buf, Min(n, Len(buf)) + 1, Len(buf))

\* The non-zero bytes among the first n bytes of a buffer.
Residue(buf, n) == SelectSeq(SubSeq(buf, 1, Min(n, Len(buf))), LAMBDA b : b # 0)

\* malloc(n): a block of n bytes holding fill.
Malloc(n, fill) == SubSeq([i \in 1..n |-> fill], 1, n)

\* memcpy(dst + at, src, n)
Memcpy(dst, at, src, n) ==
  SubSeq(dst, 1, at) \o SubSeq(src, 1, n) \o SubSeq(dst, at + n + 1, Len(dst))

\* The loop of ssl.c 436-457 and the termination of 458-460.  k counts the
\* calls of read(); the k-th returns what is left of the stream, at most
\* readLen and at most caps[k] bytes.  released collects the buffers freed at
\* line 454 with the bytes left in them.  ReadLoop is one iteration up to
\* the read (436-442), ReadGrow the rest of it (443-457) and the end
\* (458-460).
RECURSIVE ReadLoop(_, _, _, _, _, _, _)
RECURSIVE ReadGrow(_, _, _, _, _, _, _, _)
ReadLoop(stream, caps, fill, k, buf, len, released) ==
  LET readLen   == Len(buf) - len - 1
      cap       == IF k \in DOMAIN caps THEN caps[k] ELSE readLen
      bytesRead == Min(Min(readLen, cap), Len(stream) - len)
  IN ReadGrow(stream, caps, fill, k,
              Memcpy(buf, len, SubSeq(stream, len + 1, len + bytesRead),
                     bytesRead),
              len + bytesRead, bytesRead # readLen, released)

ReadGrow(stream, caps, fill, k, buf, len, last, released) ==
  IF last
    THEN [buf |-> [buf EXCEPT ![len + 1] = 0], len |-> len,
          released |-> released]
    ELSE ReadLoop(stream, caps, fill, k + 1,
                  Memcpy(Malloc(Len(buf) + inc, fill), 0, buf, len), len,
                  released \cup {[what |-> "read buffer",
                                  left |-> Residue(Memset0(buf, Len(buf)),
                                                   Len(buf))]})

\* sslSecureReadASCIIFileToMem(fd)
sslSecureReadASCIIFileToMem(stream, caps, fill) ==
  ReadLoop(stream, caps, fill, 1, Malloc(inc, fill), 0, {})

NoRead == [buf |-> <<>>, len |-> 0, released |-> {}]

FdIdle ==
  /\ rdStream = <<>>
  /\ rdCaps = <<>>
  /\ rdFill = 0
  /\ rdOut = NoRead
  /\ fdOutcome = "none"
  /\ fdReleased = {}
  /\ fdPassed = {}

(***************************************************************************)
(* Virtual hosts: sslDestroyCachedContext, destroySSL,                     *)
(* sslGenerateCertificate and sslSNICallback (ssl.c 117-158, 273-366).     *)
(***************************************************************************)
MaxCtx == 3        \* SSL_CTX objects the heap can hold
NumSess == 2       \* sessions that handshakes run on

CtxIds == 1..MaxCtx
SniSess == 1..NumSess
SniThreads == {1, 2}

\* The names clients request: none (an absent or empty server name), "A",
\* "a", "b", "_" and "a_".
SniNames == {<<>>, <<65>>, <<97>>, <<98>>, <<95>>, <<97, 95>>}

\* The names two racing handshakes request: "a" and "A".
RaceNames == {<<97>>, <<65>>}

NoCtx == [alloc |-> FALSE, refs |-> 0, dead |-> 0,
          relCallback |-> 0, relCache |-> 0, relDestroy |-> 0]

FreshCtx(C) ==
  IF \E c \in CtxIds : ~C[c].alloc
    THEN CHOOSE c \in CtxIds : ~C[c].alloc /\
                               \A d \in CtxIds : ~C[d].alloc => c <= d
    ELSE NULL

\* SSL_CTX_new: a fresh context holding the caller's reference.
SSL_CTX_new(C, c) == [C EXCEPT ![c] = [NoCtx EXCEPT !.alloc = TRUE, !.refs = 1]]

\* SSL_CTX_free(c) called by `who': one reference is dropped and the object
\* is released with the last one.
SSL_CTX_free(C, c, who) ==
  LET C1 == CASE who = "callback" -> [C EXCEPT ![c].relCallback = @ + 1]
              [] who = "cache"    -> [C EXCEPT ![c].relCache = @ + 1]
              [] who = "destroy"  -> [C EXCEPT ![c].relDestroy = @ + 1]
              [] OTHER            -> C
  IN IF C1[c].refs > 1 THEN [C1 EXCEPT ![c].refs = @ - 1]
     ELSE [C1 EXCEPT ![c].refs = 0, ![c].dead = @ + 1]

\* SSL_set_SSL_CTX(s, c): the session takes a reference to c and drops the
\* one to the context it was bound to.
SSL_set_SSL_CTX(C, old, c) ==
  IF old = c THEN C
  ELSE SSL_CTX_free([C EXCEPT ![c].refs = @ + 1], old, "session")

\* The destructor without the test for the default context.
sslDestroyCachedContext_Always(C, dflt, c) == SSL_CTX_free(C, c, "cache")

\* sslDestroyCachedContext(ssl, context) (ssl.c 117-128)
sslDestroyCachedContext(C, dflt, c) ==
  IF c # dflt THEN SSL_CTX_free(C, c, "cache") ELSE C

\* getFromTrie(&ssl->sniContexts, key, NULL)
getFromTrie(T, key) == IF key \in DOMAIN T THEN T[key] ELSE NULL

\* What addToTrie does with a key that already has a value: the old value
\* goes to the destructor and is replaced, it is replaced without being
\* destroyed, or it is kept and the new value is dropped.
TrieModes == {"destroy", "overwrite", "keep"}

\* addToTrie(&ssl->sniContexts, key, value): the value stored under key.
addToTrie(T, key, value, mode) ==
  IF key \in DOMAIN T /\ mode = "keep" THEN T
  ELSE [k \in DOMAIN T \cup {key} |-> IF k = key THEN value ELSE T[k]]

\* The contexts after addToTrie.
addToTrieContexts(C, T, dflt, key, mode) ==
  IF key \in DOMAIN T /\ T[key] # NULL /\ mode = "destroy"
    THEN sslDestroyCachedContext(C, dflt, T[key])
    ELSE C

\* destroyTrie: the destructor is run on the value of every entry.
RECURSIVE destroyTrie(_, _, _, _)
destroyTrie(C, T, dflt, keys) ==
  IF keys = {} THEN C
  ELSE LET k == CHOOSE x \in keys : TRUE
       IN destroyTrie(sslDestroyCachedContext(C, dflt, T[k]), T, dflt,
                      keys \ {k})

\* SSL_CTX_use_certificate_file, SSL_CTX_use_PrivateKey_file and
\* SSL_CTX_check_private_key all succeed on `certificate'.
LoadsCertificate(files, certificate) == certificate \in files

\* A thread that is not inside the callback; errs is the length of the
\* thread's backend error queue.
NoCall == [pc |-> "idle", sess |-> NULL, name |-> <<>>, buf |-> <<>>,
           context |-> NULL, hit |-> FALSE, looked |-> FALSE,
           allocated |-> NULL, loads |-> 0, generated |-> 0, added |-> FALSE,
           errs |-> 0, certificate |-> <<>>]

Outside(t) == cb[t].pc \in {"idle", "done"}

\* sslSNICallback from its entry to the lookup (ssl.c 294-329).  buf is
\* serverName after the loop of ssl.c 308-322 (see Requests).
SniEnter(t, s, name, buf) ==
  /\ proc = "running"
  /\ ~destroyed
  /\ Outside(t)
  /\ concurrent \/ t = 1
  /\ \A u \in SniThreads \ {t} : Outside(u) \/ cb[u].sess # s
  /\ Cardinality({c \in CtxIds : ~ctx[c].alloc})
       > Cardinality({u \in SniThreads : cb[u].pc = "miss"})
  /\ LET c == getFromTrie(sniContexts, KeyOf(buf))
     IN cb' = [cb EXCEPT ![t] =
          IF name = <<>> \/ IsEmptyName(buf)
            THEN [NoCall EXCEPT !.pc = "done", !.sess = s, !.name = name,
                                !.context = sessCtx[s]]
            ELSE [NoCall EXCEPT !.pc = IF c = NULL THEN "miss" ELSE "bind",
                                !.sess = s, !.name = name, !.buf = buf,
                                !.context = c, !.hit = (c # NULL),
                                !.looked = TRUE]]
  /\ lastOp' = "sslSNICallback"
  /\ UNCHANGED <<ctx, sslContext, generateMissing, sniContexts, certFiles,
                 sessCtx, destroyed, concurrent, uaf, proc, bioVars, loadVars,
                 normVars, sysVars, pemVars, fdVars>>

\* The cache miss up to addToTrie (ssl.c 331-356).  genOk is whether the
\* tool run by sslGenerateCertificate writes the certificate.
SniMiss(t, genOk) ==
  /\ proc = "running"
  /\ cb[t].pc = "miss"
  /\ LET c           == FreshCtx(ctx)
         C1          == SSL_CTX_new(ctx, c)
         certificate == PatternArg(cb[t].buf)
         first       == LoadsCertificate(certFiles, certificate)
         gen         == ~first /\ generateMissing
         files2      == IF gen /\ genOk THEN certFiles \cup {certificate}
                        ELSE certFiles
         second      == gen /\ LoadsCertificate(files2, certificate)
         ok          == first \/ second
     IN /\ c # NULL
        /\ certFiles' = files2
        /\ ctx' = IF ok THEN C1 ELSE SSL_CTX_free(C1, c, "callback")
        /\ cb' = [cb EXCEPT ![t].pc = "add",
                            ![t].context = IF ok THEN c ELSE sslContext,
                            ![t].allocated = c,
                            ![t].certificate = certificate,
                            ![t].loads = IF gen THEN 2 ELSE 1,
                            ![t].generated = IF gen THEN 1 ELSE 0,
                            ![t].errs = ERR_clear_error(IF first THEN 0 ELSE 1)]
  /\ lastOp' = "sslSNICallback"
  /\ UNCHANGED <<sslContext, generateMissing, sniContexts, sessCtx, destroyed,
                 concurrent, uaf, proc, bioVars, loadVars, normVars, sysVars, pemVars, fdVars>>

\* addToTrie(&ssl->sniContexts, serverName+1, context) (ssl.c 357)
SniAdd(t, mode) ==
  /\ proc = "running"
  /\ cb[t].pc = "add"
  /\ LET key == KeyOf(cb[t].buf)
     IN /\ ctx' = addToTrieContexts(ctx, sniContexts, sslContext, key, mode)
        /\ sniContexts' = addToTrie(sniContexts, key, cb[t].context, mode)
  /\ cb' = [cb EXCEPT ![t].pc = "bind", ![t].added = TRUE]
  /\ lastOp' = "sslSNICallback"
  /\ UNCHANGED <<sslContext, generateMissing, certFiles, sessCtx, destroyed,
                 concurrent, uaf, proc, bioVars, loadVars, normVars, sysVars, pemVars, fdVars>>

\* The end of the callback (ssl.c 359-364): the session is bound to the
\* context unless that is the default context.
SniBind(t) ==
  /\ proc = "running"
  /\ cb[t].pc = "bind"
  /\ LET c == cb[t].context
         s == cb[t].sess
     IN IF c # sslContext
          THEN /\ uaf' = (uaf \/ ctx[c].dead > 0)
               /\ ctx' = SSL_set_SSL_CTX(ctx, sessCtx[s], c)
               /\ sessCtx' = [sessCtx EXCEPT ![s] = c]
          ELSE UNCHANGED <<uaf, ctx, sessCtx>>
  /\ cb' = [cb EXCEPT ![t].pc = "done"]
  /\ proc' = IF cb[t].errs # 0 THEN "fatal" ELSE proc
  /\ lastOp' = "sslSNICallback"
  /\ UNCHANGED <<sslContext, generateMissing, sniContexts, certFiles,
                 destroyed, concurrent, bioVars, loadVars, normVars, sysVars, pemVars, fdVars>>

\* destroySSL(ssl) (ssl.c 145-158), once no handshake is running.
destroySSL ==
  /\ proc = "running"
  /\ ~destroyed
  /\ \A t \in SniThreads : Outside(t)
  /\ LET C1 == destroyTrie(ctx, sniContexts, sslContext, DOMAIN sniContexts)
     IN ctx' = IF sslContext # NULL THEN SSL_CTX_free(C1, sslContext, "destroy")
               ELSE C1
  /\ sniContexts' = <<>>
  /\ destroyed' = TRUE
  /\ lastOp' = "destroySSL"
  /\ UNCHANGED <<sslContext, generateMissing, certFiles, sessCtx, concurrent,
                 cb, uaf, proc, bioVars, loadVars, normVars, sysVars, pemVars, fdVars>>

\* The files a certificate may be in before the first handshake: for host
\* "a" under the name "a" and under the name "-a".
DiskCandidates == {<<97>>, <<45, 97>>}

\* struct SSLSupport after sslSetCertificate with a pattern holding %s: the
\* default context exists, owned by ssl, and every session is bound to it.
SniStart ==
  /\ ctx = [c \in CtxIds |->
              IF c = 1 THEN [NoCtx EXCEPT !.alloc = TRUE, !.refs = 1 + NumSess]
              ELSE NoCtx]
  /\ sslContext = 1
  /\ sniContexts = <<>>
  /\ sessCtx = [s \in SniSess |-> 1]
  /\ destroyed = FALSE
  /\ cb = [t \in SniThreads |-> NoCall]
  /\ uaf = FALSE

SniIdle ==
  /\ SniStart
  /\ generateMissing = FALSE
  /\ certFiles = {}
  /\ concurrent = FALSE

\* The process before any call of serverSupportsSSL: the pointers are NULL.
LoadStart ==
  /\ symtab = [n \in Names |-> FALSE]
  /\ once = "init"
  /\ initialized = FALSE
  /\ loadCount = 0
  /\ libInit = 0
  /\ tpc = [t \in Threads |-> "idle"]
  /\ ret = [t \in Threads |-> "none"]
  /\ ncalls = [t \in Threads |-> 0]

LoadIdle == LoadStart /\ pthreadLinked = TRUE

NormIdle == normName = <<>> /\ normMem = <<>> /\ normBuf = <<>>

NormInit ==
  /\ normName \in NormNames
  /\ normMem \in MemBlocks(normName)
  /\ normBuf = <<>>
  /\ BioIdle
  /\ SysIdle
  /\ LoadIdle
  /\ SniIdle
  /\ PemIdle
  /\ FdIdle
  /\ proc = "running"
  /\ lastOp = "init"

NormaliseName ==
  /\ normBuf = <<>>
  /\ normBuf' = ServerName(normName, normMem)
  /\ lastOp' = "normalise"
  /\ UNCHANGED <<normName, normMem, proc, bioVars, loadVars, sniVars,
                 sysVars, pemVars, fdVars>>

NormNext == NormaliseName

SpecNorm == NormInit /\ [][NormNext]_vars

CodecInit ==
  /\ pemPayload \in Payloads
  /\ pemLabel \in Records
  /\ \E ws \in WsPatterns : pemText = Armored(pemLabel, pemPayload, ws)
  /\ pemOut = NoResult
  /\ BioIdle
  /\ SysIdle
  /\ LoadIdle
  /\ SniIdle
  /\ NormIdle
  /\ FdIdle
  /\ proc = "running"
  /\ lastOp = "init"

\* One call sslPEMtoASN1(pemText, pemLabel, &size).
DecodeBlock ==
  /\ pemOut = NoResult
  /\ pemOut' = sslPEMtoASN1(CString(pemText, 1), pemLabel)
  /\ lastOp' = "sslPEMtoASN1"
  /\ UNCHANGED <<pemPayload, pemLabel, pemText, proc, bioVars, loadVars,
                 sniVars, normVars, sysVars, fdVars>>

CodecNext == DecodeBlock

SpecCodec == CodecInit /\ [][CodecNext]_vars

(***************************************************************************)
(* SpecRead: sslSecureReadASCIIFileToMem on a descriptor that delivers its *)
(* stream in reads of any size.                                            *)
(***************************************************************************)
MaxStream == 8     \* bytes in the stream
MaxReads == 2      \* reads whose size the descriptor limits

\* Streams of the letters 'A' and 'B'.
Streams == UNION {[1..n -> {65, 66}] : n \in 0..MaxStream}

ReadCaps == UNION {[1..n -> 1..MaxStream] : n \in 0..MaxReads}

ReadInit ==
  /\ rdStream \in Streams
  /\ rdCaps \in ReadCaps
  /\ rdFill \in GarbageBytes
  /\ rdOut = NoRead
  /\ fdOutcome = "none"
  /\ fdReleased = {}
  /\ fdPassed = {}
  /\ BioIdle
  /\ SysIdle
  /\ LoadIdle
  /\ SniIdle
  /\ NormIdle
  /\ PemIdle
  /\ proc = "running"
  /\ lastOp = "init"

\* One call sslSecureReadASCIIFileToMem(fd).
ReadFile ==
  /\ rdOut = NoRead
  /\ rdOut' = sslSecureReadASCIIFileToMem(rdStream, rdCaps, rdFill)
  /\ lastOp' = "sslSecureReadASCIIFileToMem"
  /\ UNCHANGED <<rdStream, rdCaps, rdFill, fdOutcome, fdReleased, fdPassed,
                 proc, bioVars, loadVars, sniVars, normVars, sysVars, pemVars>>

ReadNext == ReadFile

SpecRead == ReadInit /\ [][ReadNext]_vars

(***************************************************************************)
(* SpecCertFd: sslSetCertificateFd (ssl.c 530-577) on bundles put together *)
(* from a certificate block, key blocks and trailing bytes.                *)
(***************************************************************************)
\* The DER bytes the backend accepts as a certificate and as its key.
CertGood == <<251>>
KeyGood == <<255>>
KeyBad == <<0, 255>>

\* A CERTIFICATE block with a stray 'x' after the '=' padding: "+w=x=".
StrayBlock ==
  BeginMarker(CERTIFICATE) \o <<10, 43, 119, 61, 120, 61, 10>>
    \o EndMarker(CERTIFICATE) \o <<10>>

\* A CERTIFICATE block with nothing between its markers.
EmptyBlock == BeginMarker(CERTIFICATE) \o EndMarker(CERTIFICATE) \o <<10>>

NoWs == [i \in {} |-> 0]

CertParts == {<<>>, Armored(CERTIFICATE, CertGood, NoWs), StrayBlock,
              EmptyBlock}
RsaParts == {<<>>, Armored(RSA_PRIVATE_KEY, KeyGood, NoWs),
             Armored(RSA_PRIVATE_KEY, KeyBad, NoWs)}
DsaParts == {<<>>, Armored(DSA_PRIVATE_KEY, KeyGood, NoWs)}
EcParts == {<<>>, Armored(EC_PRIVATE_KEY, KeyGood, NoWs)}

\* What follows the blocks: nothing, or a NUL byte and more bundle bytes.
Tails == {<<>>, <<0, 83, 10>>}

Bundles ==
  {c \o r \o d \o e \o t :
     c \in CertParts, r \in RsaParts, d \in DsaParts, e \in EcParts,
     t \in Tails}

\* What SSL_CTX_use_certificate_ASN1(ctx, size, d) may do: with d == NULL
\* (and size == -1) the backend is outside its contract and either fails or
\* reads through the NULL pointer; otherwise it takes the certificate it
\* knows and fails on anything else.
UseCertificateOutcomes(blk) ==
  IF blk.ret = "NULL" THEN {"fail", "segv"}
  ELSE IF blk.bytes = CertGood THEN {"ok"}
  ELSE {"fail"}

\* SSL_CTX_use_PrivateKey_ASN1(type, ctx, d, size)
UsePrivateKey(blk) == blk.bytes = KeyGood

\* The test of ssl.c 543 on the certificate size alone.
CertMissing(certSize) == certSize = 0

\* How the condition of ssl.c 543-554 ends when
\* SSL_CTX_use_certificate_ASN1 does `use': "fatal" (line 555), "segv" or
\* "ok".  KeyGood is the key of CertGood, so SSL_CTX_check_private_key
\* (554) succeeds once both are installed.
LoadOutcome(cert, rsa, dsa, ec, use) ==
  IF CertMissing(cert.size) THEN "fatal"
  ELSE IF ~(rsa.size > 0 \/ dsa.size > 0 \/ ec.size > 0) THEN "fatal"
  ELSE IF use = "segv" THEN "segv"
  ELSE IF use = "fail" THEN "fatal"
  ELSE IF rsa.size > 0 /\ ~UsePrivateKey(rsa) THEN "fatal"
  ELSE IF dsa.size > 0 /\ ~UsePrivateKey(dsa) THEN "fatal"
  ELSE IF ec.size > 0 /\ ~UsePrivateKey(ec) THEN "fatal"
  ELSE "ok"

\* A decoded block as an argument of the backend.
Handed(what, blk) == [what |-> what, ret |-> blk.ret, size |-> blk.size]

\* The blocks the condition of ssl.c 543-554 hands to
\* SSL_CTX_use_certificate_ASN1 and SSL_CTX_use_PrivateKey_ASN1: || stops at
\* the first operand that is true.
HandedOver(cert, rsa, dsa, ec, use) ==
  LET rsaOk == rsa.size > 0 => UsePrivateKey(rsa)
      dsaOk == dsa.size > 0 => UsePrivateKey(dsa)
  IN IF CertMissing(cert.size) THEN {}
     ELSE IF ~(rsa.size > 0 \/ dsa.size > 0 \/ ec.size > 0) THEN {}
     ELSE {Handed("cert", cert)}
          \cup (IF use = "ok" /\ rsa.size > 0
                  THEN {Handed("rsa", rsa)} ELSE {})
          \cup (IF use = "ok" /\ rsaOk /\ dsa.size > 0
                  THEN {Handed("dsa", dsa)} ELSE {})
          \cup (IF use = "ok" /\ rsaOk /\ dsaOk /\ ec.size > 0
                  THEN {Handed("ec", ec)} ELSE {})

\* A decoded block as released by ssl.c 561-574: zeroed over size bytes.
ReleasedBlock(what, blk) ==
  [what |-> what, left |-> Residue(Memset0(blk.bytes, blk.size), blk.size)]

\* A buffer still holding its bytes when the process ends.
Abandoned(what, bytes) ==
  [what |-> what, left |-> Residue(bytes, Len(bytes))]

\* sslSetCertificateFd(ssl, fd); use is what SSL_CTX_use_certificate_ASN1
\* does if it is called.
sslSetCertificateFd(use) ==
  /\ proc = "running"
  /\ fdOutcome = "none"
  /\ sslContext = NULL
  /\ \E rd \in {sslSecureReadASCIIFileToMem(rdStream, rdCaps, rdFill)} :
     \E data \in {CString(rd.buf, 1)} :
     \E cert \in {sslPEMtoASN1(data, CERTIFICATE)},
        rsa \in {sslPEMtoASN1(data, RSA_PRIVATE_KEY)},
        dsa \in {sslPEMtoASN1(data, DSA_PRIVATE_KEY)},
        ec \in {sslPEMtoASN1(data, EC_PRIVATE_KEY)} :
     LET c        == FreshCtx(ctx)
         dataSize == Len(data)
         out      == LoadOutcome(cert, rsa, dsa, ec, use)
         keys     == {<<"rsa", rsa>>, <<"dsa", dsa>>, <<"ec", ec>>}
     IN /\ use \in UseCertificateOutcomes(cert)
        /\ ctx' = SSL_CTX_new(ctx, c)
        /\ sslContext' = c
        /\ rdOut' = rd
        /\ fdPassed' = HandedOver(cert, rsa, dsa, ec, use)
        /\ IF out = "ok"
             THEN /\ fdOutcome' = "returned"
                  /\ fdReleased' =
                       rd.released
                       \cup {[what |-> "data",
                              left |-> Residue(Memset0(rd.buf, dataSize),
                                               rd.len + 1)]}
                       \cup {ReleasedBlock("cert", cert)}
                       \cup {ReleasedBlock(k[1], k[2]) :
                               k \in {x \in keys : x[2].size > 0}}
                  /\ UNCHANGED proc
             ELSE /\ fdOutcome' = out
                  /\ fdReleased' =
                       rd.released
                       \cup {Abandoned("data", SubSeq(rd.buf, 1, rd.len + 1))}
                       \cup {Abandoned(k[1], k[2].bytes) :
                               k \in {x \in keys \cup {<<"cert", cert>>} :
                                        x[2].ret = "buffer"}}
                  /\ proc' = out
  /\ generateMissing' = FALSE
  /\ lastOp' = "sslSetCertificateFd"
  /\ UNCHANGED <<sniContexts, certFiles, sessCtx, destroyed, concurrent, cb,
                 uaf, rdStream, rdCaps, rdFill, bioVars, loadVars, normVars,
                 sysVars, pemVars>>

\* struct SSLSupport after initSSL (ssl.c 137-143): no default context.
CertFdInit ==
  /\ rdStream \in Bundles
  /\ rdCaps = <<>>
  /\ rdFill \in GarbageBytes
  /\ rdOut = NoRead
  /\ fdOutcome = "none"
  /\ fdReleased = {}
  /\ fdPassed = {}
  /\ ctx = [c \in CtxIds |-> NoCtx]
  /\ sslContext = NULL
  /\ generateMissing = FALSE
  /\ sniContexts = <<>>
  /\ certFiles = {}
  /\ sessCtx = [s \in SniSess |-> NULL]
  /\ destroyed = FALSE
  /\ concurrent = FALSE
  /\ cb = [t \in SniThreads |-> NoCall]
  /\ uaf = FALSE
  /\ BioIdle
  /\ SysIdle
  /\ LoadIdle
  /\ NormIdle
  /\ PemIdle
  /\ proc = "running"
  /\ lastOp = "init"

CertFdNext == \E use \in {"ok", "fail", "segv"} : sslSetCertificateFd(use)

SpecCertFd == CertFdInit /\ [][CertFdNext]_vars

\* A requested name with the serverName buffer the callback computes for it,
\* for every content of the block malloc returns.
RequestsOf(names) ==
  {[name |-> n, buf |-> ServerName(n, mem)] :
     <<n, mem>> \in UNION {{n} \X MemBlocks(n) : n \in names}}

SniRequests == RequestsOf(SniNames)
RaceRequests == RequestsOf(RaceNames)

\* The requests of this run.
Requests == IF concurrent THEN RaceRequests ELSE SniRequests

SniInit ==
  /\ SniStart
  /\ generateMissing \in BOOLEAN
  /\ certFiles \in SUBSET DiskCandidates
  /\ concurrent = FALSE
  /\ BioIdle
  /\ SysIdle
  /\ LoadIdle
  /\ NormIdle
  /\ FdIdle
  /\ PemIdle
  /\ proc = "running"
  /\ lastOp = "init"

SniNext ==
  \/ \E t \in SniThreads, s \in SniSess, rq \in Requests :
       SniEnter(t, s, rq.name, rq.buf)
  \/ \E t \in SniThreads, genOk \in BOOLEAN : SniMiss(t, genOk)
  \/ \E t \in SniThreads, mode \in TrieModes : SniAdd(t, mode)
  \/ \E t \in SniThreads : SniBind(t)
  \/ destroySSL

\* One handshake at a time.
SpecSni == SniInit /\ [][SniNext]_vars

RaceInit ==
  /\ SniStart
  /\ generateMissing \in BOOLEAN
  /\ certFiles \in SUBSET DiskCandidates
  /\ concurrent = TRUE
  /\ BioIdle
  /\ SysIdle
  /\ LoadIdle
  /\ NormIdle
  /\ FdIdle
  /\ PemIdle
  /\ proc = "running"
  /\ lastOp = "init"

\* Handshakes of two threads on one SSLSupport.
SpecRace == RaceInit /\ [][SniNext]_vars

LoadInit ==
  /\ LoadStart
  /\ pthreadLinked \in BOOLEAN
  /\ BioIdle
  /\ SysIdle
  /\ SniIdle
  /\ NormIdle
  /\ FdIdle
  /\ PemIdle
  /\ proc = "running"
  /\ lastOp = "init"

LoadNext ==
  \/ \E t \in Threads : CallServerSupportsSSL(t)
  \/ \E t \in Threads, image \in HaveSets, libOpens \in BOOLEAN,
        lib \in HaveSets : loadSSL(t, image, libOpens, lib)
  \/ \E t \in Threads : OnceWake(t)
  \/ \E t \in Threads : ReturnServerSupportsSSL(t)

SpecLoad == LoadInit /\ [][LoadNext]_vars


(***************************************************************************)
(* SpecTeardown: sessions as the program builds and the backend leaves     *)
(* them.                                                                   *)
(***************************************************************************)
Buffers == UNION {[1..n -> Bytes] : n \in 0..MaxLen}

TeardownInit ==
  /\ BioIdle
  /\ SysStart
  /\ logDebug \in BOOLEAN
  /\ LoadIdle
  /\ SniIdle
  /\ NormIdle
  /\ FdIdle
  /\ PemIdle
  /\ proc = "running"
  /\ lastOp = "init"

TeardownNext ==
  \/ \E buf \in Buffers, newOk, arrives \in BOOLEAN,
        pick \in Signals \cup {0} :
       sslPromoteToSSL(buf, newOk, arrives, pick)
  \/ HandshakeBegin
  \/ HandshakeEnd
  \/ sslFreeHndl

SpecTeardown == TeardownInit /\ [][TeardownNext]_vars

(***************************************************************************)
(* SpecSignals: sslBlockSigPipe and sslUnblockSigPipe in a thread that     *)
(* blocks any other signals, with signals generated at any time.           *)
(***************************************************************************)
\* sslBlockSigPipe() (ssl.c 585-591)
sslBlockSigPipe ==
  /\ proc = "running"
  /\ sigMask' = SigBlock(sigMask)
  /\ lastOp' = "sslBlockSigPipe"
  /\ UNCHANGED <<sigPending, sigDelivered, signum, logDebug, errQueue, rc,
                 errno, proc, bioVars, loadVars, sniVars, normVars, pemVars, fdVars>>

\* The kernel generates signal sig for the thread: a blocked signal becomes
\* pending, any other is delivered.
SignalGenerated(sig) ==
  /\ proc = "running"
  /\ IF sig \in sigMask
       THEN sigPending' = sigPending \cup {sig} /\ UNCHANGED sigDelivered
       ELSE sigDelivered' = sigDelivered \cup {sig} /\ UNCHANGED sigPending
  /\ lastOp' = "signal"
  /\ UNCHANGED <<sigMask, signum, logDebug, errQueue, rc, errno, proc,
                 bioVars, loadVars, sniVars, normVars, pemVars, fdVars>>

\* sslUnblockSigPipe() (ssl.c 593-605); pick is what sigwait returns.
sslUnblockSigPipe(pick) ==
  /\ proc = "running"
  /\ pick \in SigwaitChoices(sigPending)
  /\ LET u == SigUnblock(sigMask, sigPending, sigDelivered, pick)
     IN /\ sigMask' = u.mask
        /\ sigPending' = u.pending
        /\ sigDelivered' = u.delivered
        /\ signum' = u.signum
  /\ lastOp' = "sslUnblockSigPipe"
  /\ UNCHANGED <<logDebug, errQueue, rc, errno, proc, bioVars, loadVars,
                 sniVars, normVars, pemVars, fdVars>>

SignalsInit ==
  /\ sigMask \in SUBSET (Signals \ {SIGPIPE})
  /\ sigPending = {}
  /\ sigDelivered = {}
  /\ signum = 0
  /\ logDebug = FALSE
  /\ errQueue = 0
  /\ rc = 0
  /\ errno = "none"
  /\ BioIdle
  /\ LoadIdle
  /\ SniIdle
  /\ NormIdle
  /\ FdIdle
  /\ PemIdle
  /\ proc = "running"
  /\ lastOp = "init"

SignalsNext ==
  \/ sslBlockSigPipe
  \/ \E sig \in Signals : SignalGenerated(sig)
  \/ \E pick \in Signals \cup {0} : sslUnblockSigPipe(pick)

SpecSignals == SignalsInit /\ [][SignalsNext]_vars

(***************************************************************************)
(* SpecTopology: sslFreeHndl on a session whose two ends are any BIOs of a *)
(* heap of MaxTopoBio objects linked in any way.                           *)
(***************************************************************************)
MaxTopoBio == 3

TopoIds == 1..MaxTopoBio

TopoInit ==
  /\ \E nx \in [TopoIds -> {NULL} \cup TopoIds],
        pv \in [TopoIds -> {NULL} \cup TopoIds] :
       bio = [b \in BioIds |->
                IF b \in TopoIds
                  THEN [kind |-> "buffer", next_bio |-> nx[b],
                        prev_bio |-> pv[b], references |-> 1, frees |-> 0,
                        data |-> <<>>, owner |-> 1]
                  ELSE NoBio]
  /\ \E w \in {1, 2} :
       ssl = [s \in SslIds |->
                IF s = 1 THEN [alloc |-> TRUE, rbio |-> 1, wbio |-> w,
                               bbio |-> NULL, frees |-> 0]
                ELSE NoSsl]
  /\ sslHndl = 1
  /\ SysIdle
  /\ LoadIdle
  /\ SniIdle
  /\ NormIdle
  /\ FdIdle
  /\ PemIdle
  /\ proc = "running"
  /\ lastOp = "init"

TopoNext == sslFreeHndl

SpecTopology == TopoInit /\ [][TopoNext]_vars

(***************************************************************************)
(* The endpoint shapes of section 4.6.                                     *)
(***************************************************************************)
ShapeSame(h, s) == s.rbio # NULL /\ s.rbio = s.wbio

PatternA(h, s) ==
  /\ s.rbio # NULL /\ s.wbio # NULL /\ s.rbio # s.wbio
  /\ h[s.rbio].next_bio = s.wbio

PatternB(h, s) ==
  /\ s.rbio # NULL /\ s.wbio # NULL /\ s.rbio # s.wbio
  /\ h[s.rbio].next_bio # NULL
  /\ h[s.rbio].next_bio = h[s.wbio].next_bio
  /\ h[s.rbio].next_bio \notin {s.rbio, s.wbio}

Recognised(h, s) == ShapeSame(h, s) \/ PatternA(h, s) \/ PatternB(h, s)

\* The BIOs that belong to session s
Endpoints(h, s) == {b \in BioIds : h[b].kind # "none" /\ h[b].owner = s}

\* This step is a call of sslFreeHndl on a live handle.
FreeStep == lastOp' \in FreeOps /\ sslHndl # NULL

\* C1: sslFreeHndl on a session of a recognised shape (ends identical,
\* Pattern A or Pattern B) returns, and then the session and each of its
\* endpoint objects has been freed exactly once; no BIO is ever freed twice.
C1_EachEndpointFreedOnce ==
  [][ /\ \A b \in BioIds : bio'[b].frees <= 1
      /\ (FreeStep /\ Recognised(bio, ssl[sslHndl]))
           => /\ proc' = "running"
              /\ ssl'[sslHndl].frees = 1
              /\ \A b \in Endpoints(bio, sslHndl) : bio'[b].frees = 1 ]_vars

\* A session of Pattern B has been freed: its three BIOs are freed once each.
C1_Witness ==
  /\ lastOp = "sslFreeHndl"
  /\ proc = "running"
  /\ \E s \in SslIds :
       /\ ssl[s].frees = 1
       /\ ssl[s].bbio # NULL
       /\ Cardinality({b \in Endpoints(bio, s) : bio[b].frees = 1}) = 3

\* C2: a call of sslFreeHndl that returns leaves the handle NULL, and a call
\* that directly follows another call, or is made on a NULL handle, changes
\* no backend object and does not abort.
C2_FreeIdempotent ==
  [][ lastOp' \in FreeOps
        => /\ (proc' = "running" => sslHndl' = NULL)
           /\ (lastOp' = "sslFreeHndlAgain" \/ sslHndl = NULL)
                => (bio' = bio /\ ssl' = ssl /\ proc' = "running") ]_vars

\* sslFreeHndl was called a second time on a handle whose session it freed.
C2_Witness ==
  /\ lastOp = "sslFreeHndlAgain"
  /\ proc = "running"
  /\ sslHndl = NULL
  /\ \E s \in SslIds : ssl[s].frees = 1

\* C3: on two distinct ends that form neither Pattern A nor Pattern B,
\* sslFreeHndl ends in the fatal chain-corruption abort and frees nothing.
C3_OtherShapesAbort ==
  [][ (FreeStep /\ ssl[sslHndl].rbio # ssl[sslHndl].wbio
                /\ ~PatternA(bio, ssl[sslHndl])
                /\ ~PatternB(bio, ssl[sslHndl]))
        => (proc' = "fatal" /\ bio' = bio /\ ssl' = ssl) ]_vars

(***************************************************************************)
(* The normalised hostname of section 3.                                   *)
(***************************************************************************)
LowerCase(ch) == IF ch >= 65 /\ ch <= 90 THEN ch + 32 ELSE ch

AllowedByte(ch) ==
  (ch >= 97 /\ ch <= 122) \/ (ch >= 48 /\ ch <= 57) \/ ch = 46 \/ ch = 45

\* The input lower-cased, with every byte outside [a-z0-9.-] removed.
Normalized(name) ==
  SelectSeq([i \in 1..Len(name) |-> LowerCase(name[i])], AllowedByte)

RelSum(c) == ctx[c].relCallback + ctx[c].relCache + ctx[c].relDestroy

\* C4: until destroySSL no cache entry is replaced or removed, and a
\* callback that follows one which resolved the same normalised hostname
\* finds in the cache the context that one resolved.
C4_SameContextAgain ==
  [][ ~destroyed' =>
        /\ \A k \in DOMAIN sniContexts :
             k \in DOMAIN sniContexts' /\ sniContexts'[k] = sniContexts[k]
        /\ \A t \in SniThreads :
             ( /\ cb[t].pc = "done" /\ cb[t].looked
               /\ Normalized(cb[t].name) # <<>>
               /\ cb'[t].pc \in {"miss", "bind"}
               /\ Normalized(cb'[t].name) = Normalized(cb[t].name) )
               => (cb'[t].hit /\ cb'[t].context = cb[t].context)
    ]_vars

\* C5: when two threads run the callback at once, no released context is
\* used, and once both have returned every context either of them allocated
\* is the one published in the cache or has been released exactly once and
\* is bound to no session.
C5_RaceSafe ==
  /\ ~uaf
  /\ \A c \in CtxIds : ctx[c].dead <= 1
  /\ (~destroyed /\ \A t \in SniThreads : cb[t].pc = "done")
       => \A t \in SniThreads :
            LET c == cb[t].allocated
            IN c # NULL =>
                 \/ getFromTrie(sniContexts, KeyOf(cb[t].buf)) = c
                      /\ RelSum(c) = 0
                 \/ RelSum(c) = 1 /\ \A s \in SniSess : sessCtx[s] # c

\* C6: after destroySSL every context ever allocated has been released
\* exactly once: the default context by destroySSL and never by the cache
\* destructor, every other context by the callback that dropped it or by the
\* cache destructor.
C6_EachContextFreedOnce ==
  /\ \A c \in CtxIds : ctx[c].dead <= 1
  /\ destroyed =>
       \A c \in CtxIds :
         ctx[c].alloc =>
           /\ RelSum(c) = 1
           /\ (c = sslContext) <=> (ctx[c].relDestroy = 1)
           /\ (c = sslContext) => ctx[c].relCache = 0

\* destroySSL ran on a cache that held a per-host context and, from the last
\* callback, the default context as a fallback entry.
C6_Witness ==
  /\ destroyed
  /\ cb[1].pc = "done" /\ cb[1].added /\ cb[1].context = sslContext
  /\ \E c \in CtxIds : c # sslContext /\ ctx[c].relCache = 1

\* C9: the cache key is the requested name lower-cased with every byte
\* outside [a-z0-9.-] removed, the kept bytes contiguous and in order.
C9_KeyIsNormalized ==
  normBuf # <<>> => KeyOf(normBuf) = Normalized(normName)

\* C10: for a non-empty requested name that normalises to the empty string
\* the callback looks nothing up, allocates no context, loads no certificate,
\* adds nothing to the cache and leaves the session on the default context.
C10_EmptyNormalizedNoChange ==
  \A t \in SniThreads :
    (cb[t].pc # "idle" /\ cb[t].name # <<>> /\ Normalized(cb[t].name) = <<>>)
      => /\ ~cb[t].looked
         /\ cb[t].allocated = NULL
         /\ cb[t].loads = 0
         /\ ~cb[t].added
         /\ sessCtx[cb[t].sess] = sslContext

\* A callback of thread t that missed the cache and whose certificate did not
\* load, with provisioning disabled.
FailedMiss(t) ==
  /\ cb[t].looked /\ ~cb[t].hit
  /\ cb[t].pc \in {"add", "bind", "done"}
  /\ cb[t].generated = 0
  /\ cb[t].context = sslContext

C16_LoadOnlyOnFirstCallback ==
  [][ \A t \in SniThreads :
        /\ (cb[t].pc = "miss" /\ cb'[t].pc = "add"
                                /\ Normalized(cb[t].name) # <<>>) =>
             /\ getFromTrie(sniContexts, Normalized(cb[t].name)) = NULL
             /\ cb'[t].loads \in {1, 2}
             /\ cb'[t].generated = (IF cb'[t].loads = 2 THEN 1 ELSE 0)
             /\ cb'[t].loads = 2 =>
                  (generateMissing /\ ~LoadsCertificate(certFiles,
                                                        cb'[t].certificate))
        /\ (cb'[t].pc = "bind" /\ cb'[t].hit) =>
             (cb'[t].loads = 0 /\ cb'[t].generated = 0 /\ certFiles' = certFiles)
    ]_vars

\* C17: when the callback has returned for a non-empty normalised hostname
\* (here: one its key spells exactly), the session is bound to the context
\* cached under that hostname.
C17_SessionBoundToCached ==
  \A t \in SniThreads :
    ( /\ cb[t].pc = "done" /\ cb[t].looked /\ ~destroyed
      /\ Normalized(cb[t].name) # <<>>
      /\ KeyOf(cb[t].buf) = Normalized(cb[t].name) )
      => sessCtx[cb[t].sess] = getFromTrie(sniContexts, KeyOf(cb[t].buf))

\* C20: the string substituted into the certificate pattern on a cache miss
\* is the cache key itself, with no character before or after it.
C20_PathArgIsKey ==
  \A t \in SniThreads :
    cb[t].loads > 0 => cb[t].certificate = KeyOf(cb[t].buf)

\* C20 as amended: the string substituted into the certificate pattern is
\* the character '-' followed by the cache key, and nothing else.
C20_PathArgIsDashKey ==
  \A t \in SniThreads :
    cb[t].loads > 0 => cb[t].certificate = <<45>> \o KeyOf(cb[t].buf)

\* A callback loaded the certificate of host "a" from the file named by the
\* pattern filled with "-a".
C20_Witness ==
  /\ cb[1].pc = "done" /\ cb[1].loads = 1 /\ ~cb[1].hit
  /\ KeyOf(cb[1].buf) = <<97>>
  /\ cb[1].certificate = <<45, 97>>
  /\ cb[1].context # sslContext

\* C14: a call of sslPromoteToSSL in which SSL_new returns no session (the
\* handle was NULL and is NULL afterwards) returns -1 with errno EINVAL
\* instead of aborting, creates no endpoint object, leaves the error queue
\* empty and SIGPIPE unblocked.
C14_AllocationFailureReturns ==
  [][ (lastOp' = "sslPromoteToSSL" /\ sslHndl = NULL /\ sslHndl' = NULL)
        => /\ proc' = "running"
           /\ rc' = -1
           /\ errno' = "EINVAL"
           /\ bio' = bio /\ ssl' = ssl
           /\ errQueue' = 0
           /\ SIGPIPE \notin sigMask' ]_vars

\* C15: when sslUnblockSigPipe is called with SIGPIPE pending, SIGPIPE is
\* consumed and not delivered, whatever else is pending, and every other
\* pending signal stays pending.
C15_PendingSigPipeConsumed ==
  [][ (lastOp' = "sslUnblockSigPipe" /\ SIGPIPE \in sigPending)
        => /\ SIGPIPE \notin sigDelivered' \ sigDelivered
           /\ sigPending' = sigPending \ {SIGPIPE}
           /\ signum' = SIGPIPE ]_vars

\* C13: sslPEMtoASN1 applied to the padded base64 encoding of a payload,
\* wrapped in the markers of a record and with whitespace between the
\* characters, returns the payload and sets size to its length.
C13_RoundTrip ==
  pemOut # NoResult =>
    /\ pemOut.ret = "buffer"
    /\ pemOut.bytes = pemPayload
    /\ pemOut.size = Len(pemPayload)

\* A payload of one byte whose encoding has a '/' digit, whitespace and
\* padding has been decoded from an RSA key block.
C13_Witness ==
  /\ pemOut.ret = "buffer"
  /\ pemPayload = <<255>>
  /\ pemLabel = RSA_PRIVATE_KEY
  /\ pemOut.bytes = <<255>>
  /\ strstr(pemText, <<47, 32, 119, 10, 61, 32, 61>>, 1) # 0

\* C18: however the descriptor splits the stream into reads,
\* sslSecureReadASCIIFileToMem returns the whole stream followed by one NUL.
C18_ReadsWholeStream ==
  rdOut # NoRead =>
    /\ rdOut.len = Len(rdStream)
    /\ SubSeq(rdOut.buf, 1, rdOut.len + 1) = rdStream \o <<0>>

\* The bundle has no CERTIFICATE block that decodes, or no key block.
BundleUnusable ==
  LET data == CString(rdStream, 1)
  IN \/ sslPEMtoASN1(data, CERTIFICATE).ret = "NULL"
     \/ \A r \in Records \ {CERTIFICATE} : sslPEMtoASN1(data, r).ret = "NULL"

\* C12: on a bundle whose CERTIFICATE block is absent or does not decode, or
\* that has none of the RSA, DSA and EC key blocks, sslSetCertificateFd ends
\* in the fatal error and does not return.
C12_UnusableBundleIsFatal ==
  (fdOutcome # "none" /\ BundleUnusable) => fdOutcome = "fatal"

\* C19: every buffer that held bundle bytes or decoded material holds only
\* zero bytes over its used extent when it is released, whether
\* sslSetCertificateFd succeeds or fails.
C19_ReleasedBuffersAreZero ==
  \A r \in fdReleased : r.left = <<>>

\* This step is a call sslPromoteToSSL(ssl, &sslHndl, fd, buf, Len(buf)) in
\* which SSL_new gives a session and that returns 0.
PromotedWith(buf) ==
  /\ lastOp' = "sslPromoteToSSL"
  /\ proc' = "running"
  /\ rc' = 0
  /\ sslHndl = NULL
  /\ sslHndl' # NULL
  /\ bio' = PromoteBios(bio, sslHndl', buf).bio
  /\ \E arrives \in BOOLEAN, pick \in Signals \cup {0} :
       sslPromoteToSSL(buf, TRUE, arrives, pick)

\* C21: after a successful sslPromoteToSSL the write endpoint of the session
\* is the socket endpoint; with a prebuffered length above zero the read
\* endpoint is another object, a buffering endpoint seeded with exactly the
\* prebuffered bytes whose successor is the socket endpoint; with length zero
\* the read endpoint is the write endpoint itself.
C21_PromotedEndpoints ==
  [][ \A buf \in Buffers :
        PromotedWith(buf) =>
          LET s == ssl'[sslHndl']
          IN /\ s.wbio # NULL
             /\ bio'[s.wbio].kind = "socket"
             /\ bio'[s.wbio].next_bio = NULL
             /\ Len(buf) > 0 =>
                  /\ s.rbio # NULL
                  /\ s.rbio # s.wbio
                  /\ bio'[s.rbio].kind = "buffer"
                  /\ bio'[s.rbio].data = buf
                  /\ bio'[s.rbio].next_bio = s.wbio
             /\ Len(buf) = 0 => s.rbio = s.wbio ]_vars

\* A session was promoted with two prebuffered bytes: its read end is a
\* buffer BIO holding two bytes in front of the socket BIO.
C21_Witness ==
  /\ lastOp = "sslPromoteToSSL"
  /\ proc = "running"
  /\ rc = 0
  /\ sslHndl # NULL
  /\ ssl[sslHndl].rbio # ssl[sslHndl].wbio
  /\ Len(bio[ssl[sslHndl].rbio].data) = 2
  /\ bio[ssl[sslHndl].rbio].next_bio = ssl[sslHndl].wbio

\* The endpoints of session s are as sslPromoteToSSL left them: no handshake
\* buffer, one reference each, the socket BIO last, and either the one BIO at
\* both ends or the buffer BIO linked in front of the socket BIO.
Untouched(h, s) ==
  /\ s.bbio = NULL
  /\ s.rbio # NULL /\ s.wbio # NULL
  /\ h[s.wbio].kind = "socket"
  /\ h[s.wbio].next_bio = NULL
  /\ h[s.wbio].references = 1
  /\ h[s.rbio].references = 1
  /\ h[s.rbio].prev_bio = NULL
  /\ \/ s.rbio = s.wbio
     \/ /\ s.rbio # s.wbio
        /\ h[s.rbio].next_bio = s.wbio
        /\ h[s.wbio].prev_bio = s.rbio

\* C22: sslFreeHndl on a session that sslPromoteToSSL created, with or
\* without prebuffered bytes, and whose endpoints the backend left untouched
\* or altered into Pattern B, neither reaches the fatal chain-corruption
\* abort nor fails one of its check() assertions.
C22_PromotedSessionFrees ==
  [][ (/\ FreeStep
       /\ \/ Untouched(bio, ssl[sslHndl])
          \/ PatternB(bio, ssl[sslHndl]))
        => proc' \notin {"fatal", "check"} ]_vars

\* A session promoted with prebuffered bytes and left untouched has been
\* freed: sslFreeHndl returned and its two BIOs are freed once each.
C22_Witness ==
  /\ lastOp = "sslFreeHndl"
  /\ proc = "running"
  /\ \E s \in SslIds :
       /\ ssl[s].frees = 1
       /\ ssl[s].bbio = NULL
       /\ ssl[s].rbio # ssl[s].wbio
       /\ bio[ssl[s].rbio].data # <<>>
       /\ bio[ssl[s].rbio].frees = 1
       /\ bio[ssl[s].wbio].frees = 1

\* The names of the decoded blocks with their record names.
BlockNames == {<<"cert", CERTIFICATE>>, <<"rsa", RSA_PRIVATE_KEY>>,
               <<"dsa", DSA_PRIVATE_KEY>>, <<"ec", EC_PRIVATE_KEY>>}

\* C23: sslSetCertificateFd hands the backend no block that sslPEMtoASN1
\* returned as NULL with size -1, and neither zeroes nor frees such a block.
C23_NoMissingBlockUsed ==
  fdOutcome # "none" =>
    /\ \A p \in fdPassed : p.ret # "NULL" /\ p.size >= 0
    /\ \A n \in BlockNames :
         sslPEMtoASN1(CString(rdOut.buf, 1), n[2]).ret = "NULL"
           => \A r \in fdReleased : r.what # n[1]

====
